---------------------------- MODULE Spec2Model ----------------------------
(* CowHorseDetector: the analysis run (ignore set, alias rewrite, per-commit *)
(* fold, streak, busiest day, severity, rankings) as a state machine.        *)
(*                                                                           *)
(* Text is a sequence of one-character strings, so trimming, splitting and   *)
(* byte-wise ordering are computed.  An instant is a whole number of hours   *)
(* since 1970-01-01T00:00Z together with a fixed offset in hours; a calendar *)
(* date is a day number since 1970-01-01.  f64 ratios and scores are exact   *)
(* rationals [num, den] in lowest terms.                                     *)
EXTENDS Integers, Sequences, FiniteSets, TLC

VARIABLES
    program,   \* what runs: "main.rs" (the binary), "modules" (the caller of
               \* alias.rs and metrics.rs) or the name of a function called
               \* directly
    cli,       \* the parsed command line
    gitlog,    \* the commits the commit source yields
    pc,        \* the position in the run
    commits,   \* the local `commits`
    ignored,   \* the local `ignored`
    aliases,   \* the alias map
    acc,       \* the accumulators of compute_metrics
    idx,       \* the position of its loop
    metrics,   \* the record it returned
    stdout,    \* what was printed
    err,       \* the error the run ended with
    call,      \* argument and result of a function called directly
    utc_now,   \* Utc::now() as the run reads it
    window,    \* the locals `since` and `until`
    file,      \* the state file of push-check
    push,      \* the invocation of push-check under way
    history    \* the invocations of push-check that succeeded, in order

vars == <<program, cli, gitlog, pc, commits, ignored, aliases, acc, idx,
          metrics, stdout, err, call, utc_now, window,
          file, push, history>>

(***************************************************************************)
(* Option<T>                                                               *)
(***************************************************************************)
None == <<>>
Some(x) == <<x>>
IsSome(o) == o # <<>>
Unwrap(o) == o[1]

Min(a, b) == IF a <= b THEN a ELSE b
Max(a, b) == IF a >= b THEN a ELSE b

(***************************************************************************)
(* Text                                                                    *)
(***************************************************************************)
\* The characters in use, in ascending byte order.
Alphabet == <<" ", "=", "A", "B", "C", "D", "a", "b", "d", "i", "m", "n", "s", "t">>

Code(c) == CHOOSE k \in 1..Len(Alphabet) : Alphabet[k] = c

RECURSIVE StrLess(_, _)
\* Ord for String: byte-wise lexicographic, a proper prefix is smaller.
StrLess(s, t) ==
    IF t = <<>> THEN FALSE
    ELSE IF s = <<>> THEN TRUE
    ELSE IF Code(Head(s)) # Code(Head(t)) THEN Code(Head(s)) < Code(Head(t))
    ELSE StrLess(Tail(s), Tail(t))

RECURSIVE TrimStart(_)
TrimStart(s) == IF s # <<>> /\ Head(s) = " " THEN TrimStart(Tail(s)) ELSE s

RECURSIVE TrimEnd(_)
TrimEnd(s) ==
    IF s # <<>> /\ s[Len(s)] = " " THEN TrimEnd(SubSeq(s, 1, Len(s) - 1)) ELSE s

\* str::trim
Trim(s) == TrimEnd(TrimStart(s))

\* str::splitn(2, '='): one part when there is no '=', else the text before
\* the first '=' and everything after it.
SplitN2(s) ==
    IF \E k \in 1..Len(s) : s[k] = "="
    THEN LET k == CHOOSE j \in 1..Len(s) :
                      s[j] = "=" /\ \A m \in 1..(j - 1) : s[m] # "="
         IN  <<SubSeq(s, 1, k - 1), SubSeq(s, k + 1, Len(s))>>
    ELSE <<s>>

RECURSIVE SortStrings(_)
\* Vec<String>::sort over the elements of a set of distinct strings.
SortStrings(S) ==
    IF S = {} THEN <<>>
    ELSE LET m == CHOOSE x \in S : \A y \in S \ {x} : StrLess(x, y)
         IN  <<m>> \o SortStrings(S \ {m})

SeqToSet(s) == {s[k] : k \in 1..Len(s)}

RECURSIVE Repeat(_, _)
Repeat(x, n) == IF n = 0 THEN <<>> ELSE <<x>> \o Repeat(x, n - 1)

(***************************************************************************)
(* Timestamps: DateTime<FixedOffset>                                       *)
(***************************************************************************)
HoursPerDay == 24
DaysPerWeek == 7
\* Days from Monday of 1970-01-01 (a Thursday).
EpochWeekday == 3
Saturday == 5
Sunday == 6

LocalHours(ts) == ts.utc + ts.off
date_naive(ts) == LocalHours(ts) \div HoursPerDay
hour(ts) == LocalHours(ts) % HoursPerDay
\* num_days_from_monday of the local date
weekday(ts) == (date_naive(ts) + EpochWeekday) % DaysPerWeek

\* PartialOrd for DateTime compares the instants, not the offsets.
TsLess(a, b) == a.utc < b.utc

(***************************************************************************)
(* f64 values that are quotients of small integers: exact rationals        *)
(***************************************************************************)
RECURSIVE GCD(_, _)
GCD(a, b) == IF b = 0 THEN a ELSE GCD(b, a % b)

Rat(n, d) == LET g == GCD(n, d) IN [num |-> n \div g, den |-> d \div g]
RatAdd(x, y) == Rat(x.num * y.den + y.num * x.den, x.den * y.den)
RatScale(x, k) == Rat(x.num * k, x.den)
RatLess(x, y) == x.num * y.den < y.num * x.den
RatEq(x, y) == x.num * y.den = y.num * x.den
RatMin(x, y) == IF RatLess(y, x) THEN y ELSE x
\* rounding to the nearest integer instead
Rounded(x) == (2 * x.num + x.den) \div (2 * x.den)

\* `as u32` of a non-negative value: the integer part.
Trunc(x) == x.num \div x.den

percentage(part, total) == IF total = 0 THEN Rat(0, 1) ELSE Rat(part, total)

(***************************************************************************)
(* Temporal classification                                                 *)
(***************************************************************************)
WorkStartHour == 10
WorkEndHour == 18
MainWorkEndHour == 19
NightEndHour == 6
NightStartHour == 23

is_weekend(wd) == wd \in {Saturday, Sunday}
is_night(h) == h < NightEndHour \/ h >= NightStartHour
\* the first working hour counted as after hours
is_after_hours_from_ten(h) == h <= WorkStartHour \/ h >= WorkEndHour

\* metrics.rs
is_after_hours(h) == h < WorkStartHour \/ h >= WorkEndHour
\* main.rs
main_is_after_hours(h) == h < WorkStartHour \/ h >= MainWorkEndHour

(***************************************************************************)
(* compute_metrics: the accumulators and the body of the loop              *)
(***************************************************************************)
EmptyMap == [x \in {} |-> 0]

InitAcc ==
    [after_hours |-> 0, weekend |-> 0, night |-> 0,
     day_stats |-> EmptyMap, author_stats |-> EmptyMap,
     analysis_start |-> None, analysis_end |-> None]

DayStatsDefault == [total_commits |-> 0, after_hours_commits |-> 0]
AuthorAccumulatorDefault ==
    [total_commits |-> 0, after_hours_commits |-> 0,
     weekend_commits |-> 0, night_commits |-> 0]

\* the entry is reset at every access
OrDefaultAlways(map, k, default) == default

\* map.entry(k).or_default()
OrDefault(map, k, default) == IF k \in DOMAIN map THEN map[k] ELSE default
\* the map with the entry of k set to v
Put(map, k, v) == [x \in DOMAIN map \cup {k} |-> IF x = k THEN v ELSE map[x]]

\* a counter bumped twice for one commit
BumpTwice(flag) == IF flag THEN 2 ELSE 0

Bump(flag) == IF flag THEN 1 ELSE 0

\* One iteration of `for commit in commits`, given the commit's after-hours
\* classification (the only place where the two copies of the loop differ).
FoldOne(a, commit, ah) ==
    LET ts   == commit.timestamp
        date == date_naive(ts)
        we   == is_weekend(weekday(ts))
        nt   == is_night(hour(ts))
        day  == OrDefault(a.day_stats, date, DayStatsDefault)
        au   == OrDefault(a.author_stats, commit.author, AuthorAccumulatorDefault)
    IN  [analysis_start |->
             IF a.analysis_start = None \/ TsLess(ts, Unwrap(a.analysis_start))
             THEN Some(ts) ELSE a.analysis_start,
         analysis_end |->
             IF a.analysis_end = None \/ TsLess(Unwrap(a.analysis_end), ts)
             THEN Some(ts) ELSE a.analysis_end,
         after_hours |-> a.after_hours + Bump(ah),
         weekend |-> a.weekend + Bump(we),
         night |-> a.night + Bump(nt),
         day_stats |->
             Put(a.day_stats, date,
                 [total_commits |-> day.total_commits + 1,
                  after_hours_commits |-> day.after_hours_commits + Bump(ah)]),
         author_stats |->
             Put(a.author_stats, commit.author,
                 [total_commits |-> au.total_commits + 1,
                  after_hours_commits |-> au.after_hours_commits + Bump(ah),
                  weekend_commits |-> au.weekend_commits + Bump(we),
                  night_commits |-> au.night_commits + Bump(nt)])]

\* metrics.rs: the loop body
FoldCommit(a, commit) ==
    FoldOne(a, commit, is_after_hours(hour(commit.timestamp)))

\* main.rs: the loop body
MainFoldCommit(a, commit) ==
    FoldOne(a, commit, main_is_after_hours(hour(commit.timestamp)))

(***************************************************************************)
(* compute_metrics: the derived quantities                                 *)
(***************************************************************************)
RECURSIVE SortedDates(_)
\* BTreeMap keys, ascending
SortedDates(S) ==
    IF S = {} THEN <<>>
    ELSE LET m == CHOOSE x \in S : \A y \in S : x <= y
         IN  <<m>> \o SortedDates(S \ {m})

commit_days(day_stats) == Cardinality(DOMAIN day_stats)

overtime_days(day_stats) ==
    Cardinality({d \in DOMAIN day_stats : day_stats[d].after_hours_commits > 0})

RECURSIVE StreakLoopAnyGap(_, _, _, _, _)
\* the run continues over any forward gap
StreakLoopAnyGap(dates, k, prev, current, best) ==
    IF k > Len(dates) THEN best
    ELSE LET date == dates[k]
             cur  == IF prev = None THEN 1
                     ELSE IF date - Unwrap(prev) >= 1 THEN current + 1
                     ELSE 1
         IN  StreakLoopAnyGap(dates, k + 1, Some(date), cur, Max(best, cur))

RECURSIVE StreakLoop(_, _, _, _, _)
StreakLoop(dates, k, prev, current, best) ==
    IF k > Len(dates) THEN best
    ELSE LET date == dates[k]
             cur  == IF prev = None THEN 1
                     ELSE IF date - Unwrap(prev) = 1 THEN current + 1
                     ELSE 1
         IN  StreakLoop(dates, k + 1, Some(date), cur, Max(best, cur))

longest_streak(dates) == StreakLoop(dates, 1, None, 0, 0)

\* the comparator of max_by: "Less", "Equal" or "Greater"
CmpInt(x, y) == IF x < y THEN "Less" ELSE IF x > y THEN "Greater" ELSE "Equal"
Then(first, second) == IF first = "Equal" THEN second ELSE first

\* the comparator without its tie-break
DayCmpTotalOnly(a, b) == CmpInt(a.total_commits, b.total_commits)

DayCmp(a, b) ==
    Then(CmpInt(a.total_commits, b.total_commits),
         CmpInt(a.after_hours_commits, b.after_hours_commits))

RECURSIVE MaxByLoop(_, _, _, _)
\* Iterator::max_by keeps the later of two elements that compare equal.
MaxByLoop(day_stats, dates, k, best) ==
    IF k > Len(dates) THEN best
    ELSE MaxByLoop(day_stats, dates, k + 1,
                   IF DayCmp(day_stats[best], day_stats[dates[k]]) = "Greater"
                   THEN best ELSE dates[k])

busiest_day(day_stats) ==
    LET dates == SortedDates(DOMAIN day_stats)
    IN  IF dates = <<>> THEN None
        ELSE LET d == MaxByLoop(day_stats, dates, 2, dates[1])
             IN  Some([date |-> d,
                       total_commits |-> day_stats[d].total_commits,
                       after_hours_commits |-> day_stats[d].after_hours_commits])

StreakCap == 14
WeightAfterHours == 40
WeightWeekend == 20
WeightNight == 20
WeightOvertimeDays == 10
WeightStreak == 10
ScoreCap == 100

\* the score without the streak term
severity_score_no_streak(total, after_hours, weekend, night, ot_days, c_days, streak) ==
    IF total = 0 THEN Rat(0, 1)
    ELSE RatMin(RatAdd(RatAdd(RatAdd(
             RatScale(percentage(after_hours, total), WeightAfterHours),
             RatScale(percentage(weekend, total), WeightWeekend)),
             RatScale(percentage(night, total), WeightNight)),
             RatScale(IF c_days = 0 THEN Rat(0, 1) ELSE percentage(ot_days, c_days),
                      WeightOvertimeDays)),
         Rat(ScoreCap, 1))

severity_score(total, after_hours, weekend, night, ot_days, c_days, streak) ==
    IF total = 0 THEN Rat(0, 1)
    ELSE LET after_hours_ratio  == percentage(after_hours, total)
             weekend_ratio      == percentage(weekend, total)
             night_ratio        == percentage(night, total)
             overtime_day_ratio == IF c_days = 0 THEN Rat(0, 1)
                                   ELSE percentage(ot_days, c_days)
             streak_factor      == Rat(Min(streak, StreakCap), StreakCap)
             score ==
                 RatAdd(RatAdd(RatAdd(RatAdd(
                     RatScale(after_hours_ratio, WeightAfterHours),
                     RatScale(weekend_ratio, WeightWeekend)),
                     RatScale(night_ratio, WeightNight)),
                     RatScale(overtime_day_ratio, WeightOvertimeDays)),
                     RatScale(streak_factor, WeightStreak))
         IN  RatMin(score, Rat(ScoreCap, 1))

Band1Top == 20
Band2Top == 40
Band3Top == 60
Band4Top == 80

\* The labels are the source's five literals, written in English:
\*   "at ease" (qing song zi zai), "basically healthy" (ji ben jian kang),
\*   "sustained overtime" (chi xu jia ban), "half cow-horse" (ban niu ma
\*   zhuang tai), "full cow-horse alert" (quan mian niu ma yu jing).
severity_label(score) ==
    LET n == Trunc(score)
    IN  IF n <= Band1Top THEN "at ease"
        ELSE IF n <= Band2Top THEN "basically healthy"
        ELSE IF n <= Band3Top THEN "sustained overtime"
        ELSE IF n <= Band4Top THEN "half cow-horse"
        ELSE "full cow-horse alert"

(***************************************************************************)
(* compute_metrics: the author rankings                                    *)
(***************************************************************************)
CmpRat(x, y) ==
    IF RatLess(x, y) THEN "Less" ELSE IF RatLess(y, x) THEN "Greater" ELSE "Equal"

AuthorSummary(name, stats) ==
    [name |-> name,
     total_commits |-> stats.total_commits,
     after_hours_commits |-> stats.after_hours_commits,
     weekend_commits |-> stats.weekend_commits,
     night_commits |-> stats.night_commits,
     after_hours_ratio |->
         percentage(stats.after_hours_commits, stats.total_commits)]

\* author_stats.into_iter().map(..).collect(), `order` being the order in
\* which the HashMap yields its keys.
author_summaries(author_stats, order) ==
    [k \in 1..Len(order) |-> AuthorSummary(order[k], author_stats[order[k]])]

\* the closure of nightowls.sort_by
NightowlCmp(a, b) ==
    Then(CmpRat(b.after_hours_ratio, a.after_hours_ratio),
         CmpInt(b.after_hours_commits, a.after_hours_commits))

\* the closure of author_summaries.sort_by
ChillCmp(a, b) ==
    Then(CmpRat(a.after_hours_ratio, b.after_hours_ratio),
         CmpInt(b.total_commits, a.total_commits))

\* the closure of the sort that makes the given list
RankCmp(list, a, b) ==
    IF list = "nightowls" THEN NightowlCmp(a, b) ELSE ChillCmp(a, b)

\* slice::sort_by is stable: an element is preceded by the elements that
\* compare Less than it and by the equal ones that came before it.
SortBy(s, list) ==
    LET Pos(i) == 1 + Cardinality({j \in 1..Len(s) :
                        \/ RankCmp(list, s[j], s[i]) = "Less"
                        \/ RankCmp(list, s[j], s[i]) = "Equal" /\ j < i})
    IN  [p \in 1..Len(s) |-> s[CHOOSE i \in 1..Len(s) : Pos(i) = p]]

\* Vec::truncate
Truncate(s, n) == SubSeq(s, 1, Min(Len(s), n))

TopN == 3

\* the list cut to three before it is sorted
nightowls_truncate_first(summaries) ==
    SortBy(Truncate(summaries, TopN), "nightowls")

nightowls(summaries) == Truncate(SortBy(summaries, "nightowls"), TopN)
chill_authors(summaries) == Truncate(SortBy(summaries, "chill"), TopN)

\* The orders in which a HashMap with key set S may yield its keys.
IterOrders(S) ==
    {f \in [1..Cardinality(S) -> S] : \A x \in S : \E k \in DOMAIN f : f[k] = x}

\* metrics.rs, from `let commit_days` to the returned record.
RepoMetrics(a, order, total_commits, ignored_authors, alias_rules) ==
    LET c_days == commit_days(a.day_stats)
        o_days == overtime_days(a.day_stats)
        streak == longest_streak(SortedDates(DOMAIN a.day_stats))
        sums   == author_summaries(a.author_stats, order)
        score  == severity_score(total_commits, a.after_hours, a.weekend,
                                 a.night, o_days, c_days, streak)
    IN  [analysis_start |-> a.analysis_start,
         analysis_end |-> a.analysis_end,
         total_commits |-> total_commits,
         unique_authors |-> Cardinality(DOMAIN a.author_stats),
         after_hours_commits |-> a.after_hours,
         weekend_commits |-> a.weekend,
         night_commits |-> a.night,
         commit_days |-> c_days,
         overtime_days |-> o_days,
         longest_streak_days |-> streak,
         busiest_day |-> busiest_day(a.day_stats),
         severity_score |-> score,
         severity_label |-> severity_label(score),
         top_after_hours_authors |-> nightowls(sums),
         chill_authors |-> chill_authors(sums),
         ignored_authors |-> ignored_authors,
         alias_rules |-> alias_rules]

(***************************************************************************)
(* alias.rs                                                                *)
(***************************************************************************)
RECURSIVE ParseAliasesLoopSwapped(_, _, _)
\* the two sides of an entry inserted the wrong way round
ParseAliasesLoopSwapped(raw, k, map) ==
    IF k > Len(raw) THEN [ok |-> TRUE, map |-> map, error |-> ""]
    ELSE LET parts == SplitN2(raw[k])
         IN  IF Len(parts) # 2
             THEN [ok |-> FALSE, map |-> EmptyMap, error |-> "alias format"]
             ELSE LET from == Trim(parts[1])
                      to   == Trim(parts[2])
                  IN  IF from = <<>> \/ to = <<>>
                      THEN [ok |-> FALSE, map |-> EmptyMap, error |-> "alias empty"]
                      ELSE ParseAliasesLoopSwapped(raw, k + 1, Put(map, to, from))

RECURSIVE ParseAliasesLoop(_, _, _)
ParseAliasesLoop(raw, k, map) ==
    IF k > Len(raw) THEN [ok |-> TRUE, map |-> map, error |-> ""]
    ELSE LET parts == SplitN2(raw[k])
         IN  IF Len(parts) # 2
             THEN [ok |-> FALSE, map |-> EmptyMap, error |-> "alias format"]
             ELSE LET from == Trim(parts[1])
                      to   == Trim(parts[2])
                  IN  IF from = <<>> \/ to = <<>>
                      THEN [ok |-> FALSE, map |-> EmptyMap, error |-> "alias empty"]
                      ELSE ParseAliasesLoop(raw, k + 1, Put(map, from, to))

parse_aliases(raw) == ParseAliasesLoop(raw, 1, EmptyMap)

(***************************************************************************)
(* The caller of alias.rs and metrics.rs (section 4.1 of the spec)         *)
(***************************************************************************)
\* alias_map[raw_author] when present, otherwise the author verbatim
RewriteAuthor(map, author) == IF author \in DOMAIN map THEN map[author] ELSE author

RewriteCommits(map, cs) ==
    [k \in 1..Len(cs) |->
        [author |-> RewriteAuthor(map, cs[k].author), timestamp |-> cs[k].timestamp]]

\* alias_rules, sorted by `from`
AliasRules(map) ==
    LET froms == SortStrings(DOMAIN map)
    IN  [k \in 1..Len(froms) |-> [from |-> froms[k], to |-> map[froms[k]]]]

(***************************************************************************)
(* main.rs: run                                                            *)
(***************************************************************************)
BitsAdmin == <<"B", "i", "t", "s", "A", "d", "m", "i", "n">>
DEFAULT_IGNORED_AUTHORS == <<BitsAdmin>>

\* the set without its seed
IgnoredSetUnseeded(ignore_author) == SeqToSet(ignore_author)

\* the HashSet `ignored`
IgnoredSet(ignore_author) == SeqToSet(DEFAULT_IGNORED_AUTHORS) \cup SeqToSet(ignore_author)

RECURSIVE Retain(_, _)
\* Vec::retain(|commit| !ignored.contains(&commit.author))
Retain(cs, ign) ==
    IF cs = <<>> THEN <<>>
    ELSE IF Head(cs).author \in ign THEN Retain(Tail(cs), ign)
    ELSE <<Head(cs)>> \o Retain(Tail(cs), ign)

(***************************************************************************)
(* Time filters: strings, decimal numbers and instants                     *)
(***************************************************************************)
\* A character outside ASCII stands in a string as its code point.
CjkDay == "U+65E5"      \* three bytes in UTF-8
LatinEAcute == "U+00E9" \* two bytes in UTF-8
Utf8Len(c) == IF c = CjkDay THEN 3 ELSE IF c = LatinEAcute THEN 2 ELSE 1

RECURSIVE ByteLen(_)
\* str::len: the length in bytes
ByteLen(s) == IF s = <<>> THEN 0 ELSE Utf8Len(Head(s)) + ByteLen(Tail(s))

\* str::is_char_boundary
IsCharBoundary(s, n) == \E k \in 0..Len(s) : ByteLen(SubSeq(s, 1, k)) = n

\* str::split_at at a character boundary
SplitAt(s, n) ==
    LET k == CHOOSE j \in 0..Len(s) : ByteLen(SubSeq(s, 1, j)) = n
    IN  <<SubSeq(s, 1, k), SubSeq(s, k + 1, Len(s))>>

LowerChar(c) ==
    CASE c = "D" -> "d" [] c = "H" -> "h" [] c = "T" -> "t"
      [] c = "W" -> "w" [] c = "Z" -> "z" [] OTHER -> c
\* str::to_ascii_lowercase
ToAsciiLowercase(s) == [k \in 1..Len(s) |-> LowerChar(s[k])]

DecDigits == <<"0", "1", "2", "3", "4", "5", "6", "7", "8", "9">>
IsDigit(c) == \E k \in 1..Len(DecDigits) : DecDigits[k] = c
DigitVal(c) == (CHOOSE k \in 1..Len(DecDigits) : DecDigits[k] = c) - 1
AllDigits(s) == \A k \in 1..Len(s) : IsDigit(s[k])

\* A number of any size is the sequence of its decimal digits.
RECURSIVE Strip(_)
\* without its leading zeros
Strip(ds) == IF ds # <<>> /\ Head(ds) = 0 THEN Strip(Tail(ds)) ELSE ds

DecLeq(a, b) ==
    LET x == Strip(a)
        y == Strip(b)
    IN  \/ Len(x) < Len(y)
        \/ /\ Len(x) = Len(y)
           /\ \/ x = y
              \/ \E k \in 1..Len(x) :
                    x[k] < y[k] /\ \A j \in 1..(k - 1) : x[j] = y[j]

RECURSIVE DecToInt(_)
\* the value of a number of few digits
DecToInt(ds) ==
    IF ds = <<>> THEN 0 ELSE 10 * DecToInt(SubSeq(ds, 1, Len(ds) - 1)) + ds[Len(ds)]

RECURSIVE LongDiv(_, _, _, _)
\* quotient and remainder of the digits ds[k..] by n, after q and r
LongDiv(ds, n, k, qr) ==
    IF k > Len(ds) THEN qr
    ELSE LET x == 10 * qr.r + ds[k]
         IN  LongDiv(ds, n, k + 1, [q |-> 10 * qr.q + x \div n, r |-> x % n])

\* i64::MAX and the magnitude of i64::MIN
I64Max == <<9, 2, 2, 3, 3, 7, 2, 0, 3, 6, 8, 5, 4, 7, 7, 5, 8, 0, 7>>
I64MinMagnitude == <<9, 2, 2, 3, 3, 7, 2, 0, 3, 6, 8, 5, 4, 7, 7, 5, 8, 0, 8>>

\* str::parse::<i64>: an optional sign and at least one digit, no overflow
ParseI64(s) ==
    LET signed == s # <<>> /\ Head(s) \in {"+", "-"}
        neg    == s # <<>> /\ Head(s) = "-"
        body   == IF signed THEN Tail(s) ELSE s
        mag    == [k \in 1..Len(body) |-> DigitVal(body[k])]
    IN  IF body = <<>> \/ ~AllDigits(body)
        THEN [ok |-> FALSE, neg |-> FALSE, mag |-> <<>>]
        ELSE IF DecLeq(mag, IF neg THEN I64MinMagnitude ELSE I64Max)
        THEN [ok |-> TRUE, neg |-> neg, mag |-> Strip(mag)]
        ELSE [ok |-> FALSE, neg |-> FALSE, mag |-> <<>>]

\* DateTime<Utc>: the day since 1970-01-01 and the second of that day
Instant(day, sec) == [day |-> day, sec |-> sec]
SecsPerHour == 3600
SecsPerDay == 86400
InstantLess(a, b) == a.day < b.day \/ (a.day = b.day /\ a.sec < b.sec)
\* day and second brought back to a second of [0, SecsPerDay)
Normalise(day, sec) == Instant(day + sec \div SecsPerDay, sec % SecsPerDay)

\* chrono: the first day of DateTime<Utc>, -262143-01-01
MinDateDay == 0 - 96465292
(***************************************************************************)
(* Time filters: try_parse_relative                                        *)
(***************************************************************************)
\* chrono: the most days, weeks and hours a Duration holds (i64::MAX ms)
DurationMaxDays == <<1, 0, 6, 7, 5, 1, 9, 9, 1, 1, 6, 7>>
DurationMaxWeeks == <<1, 5, 2, 5, 0, 2, 8, 4, 4, 5, 2>>
DurationMaxHours == <<2, 5, 6, 2, 0, 4, 7, 7, 8, 8, 0, 1, 5>>

\* Duration::days, Duration::weeks and Duration::hours panic beyond them
DurationOverflows(mag, suffix) ==
    ~DecLeq(mag, CASE suffix = "d" -> DurationMaxDays
                   [] suffix = "w" -> DurationMaxWeeks
                   [] OTHER -> DurationMaxHours)

\* DateTime::checked_sub_signed of mag days, weeks or hours: None when the
\* result lies before the first DateTime.  A number of more than 8 digits of
\* days or weeks, or 10 digits of hours, is longer than all of DateTime.
CheckedSub(now, mag, suffix) ==
    IF Len(mag) > (IF suffix = "h" THEN 10 ELSE 8) THEN None
    ELSE LET d == CASE suffix = "d" -> [q |-> DecToInt(mag), r |-> 0]
                    [] suffix = "w" -> [q |-> DaysPerWeek * DecToInt(mag), r |-> 0]
                    [] OTHER -> LongDiv(mag, HoursPerDay, 1, [q |-> 0, r |-> 0])
             res == Normalise(now.day - d.q, now.sec - d.r * SecsPerHour)
         IN  IF res.day < MinDateDay THEN None ELSE Some(res)

NoInstant == Instant(0, 0)
\* what a call comes to: kind is "some", "none", "ok", "err" or "panic"
Outcome(kind, value) == [kind |-> kind, value |-> value]

try_parse_relative(value, now) ==
    LET trimmed == ToAsciiLowercase(Trim(value))
        mid     == ByteLen(trimmed) - 1
    IN  IF ByteLen(trimmed) < 2 THEN Outcome("none", NoInstant)
        ELSE IF ~IsCharBoundary(trimmed, mid) THEN Outcome("panic", NoInstant)
        ELSE LET amount_part == SplitAt(trimmed, mid)[1]
                 suffix      == SplitAt(trimmed, mid)[2][1]
                 num         == ParseI64(amount_part)
             IN  IF ~num.ok THEN Outcome("none", NoInstant)
                 ELSE IF num.neg \/ num.mag = <<>> THEN Outcome("none", NoInstant)
                 ELSE IF suffix \notin {"d", "w", "h"} THEN Outcome("none", NoInstant)
                 ELSE IF DurationOverflows(num.mag, suffix)
                 THEN Outcome("panic", NoInstant)
                 ELSE LET r == CheckedSub(now, num.mag, suffix)
                      IN  IF r = None THEN Outcome("panic", NoInstant)
                          ELSE Outcome("some", Unwrap(r))
(***************************************************************************)
(* Time filters: RFC 3339 instants, calendar dates, parse_time_filter      *)
(***************************************************************************)
IsLeapYear(y) == (y % 4 = 0 /\ y % 100 # 0) \/ y % 400 = 0
DaysInMonth(y, m) ==
    IF m = 2 THEN (IF IsLeapYear(y) THEN 29 ELSE 28)
    ELSE IF m \in {4, 6, 9, 11} THEN 30 ELSE 31

\* the day since 1970-01-01 of a date of the proleptic Gregorian calendar
DaysFromCivil(y, m, d) ==
    LET yy  == IF m <= 2 THEN y - 1 ELSE y
        era == yy \div 400
        yoe == yy - era * 400
        doy == (153 * (IF m > 2 THEN m - 3 ELSE m + 9) + 2) \div 5 + d - 1
        doe == yoe * 365 + yoe \div 4 - yoe \div 100 + doy
    IN  era * 146097 + doe - 719468

\* chrono: the years of NaiveDate
MinYear == 0 - 262143
MaxYear == 262142

ValidDate(y, m, d) ==
    /\ y >= MinYear /\ y <= MaxYear
    /\ m >= 1 /\ m <= 12
    /\ d >= 1 /\ d <= DaysInMonth(y, m)

\* the number of leading digits of s, at most max
LeadingDigits(s, max) ==
    LET top == Min(max, Len(s))
    IN  CHOOSE n \in 0..top :
            /\ \A k \in 1..n : IsDigit(s[k])
            /\ n = top \/ ~IsDigit(s[n + 1])

\* chrono scan::number after trim_start: between one and max digits.  A
\* number of more than six digits stands for a year out of range.
ScanNumber(s, max) ==
    LET t   == TrimStart(s)
        n   == LeadingDigits(t, max)
        mag == Strip([k \in 1..n |-> DigitVal(t[k])])
    IN  [ok |-> n >= 1,
         val |-> IF Len(mag) > 6 THEN MaxYear + 1 ELSE DecToInt(mag),
         rest |-> SubSeq(t, n + 1, Len(t))]

\* a literal character of the format
Literal(s, c) == s # <<>> /\ Head(s) = c

\* NaiveDate::parse_from_str(value, "%Y-%m-%d"): the day, or None
ParseNaiveDate(value) ==
    LET t      == TrimStart(value)
        signed == t # <<>> /\ Head(t) \in {"+", "-"}
        yr     == IF signed THEN ScanNumber(Tail(t), Len(t)) ELSE ScanNumber(t, 4)
        y      == IF signed /\ Head(t) = "-" THEN 0 - yr.val ELSE yr.val
        mo     == ScanNumber(Tail(yr.rest), 2)
        dy     == ScanNumber(Tail(mo.rest), 2)
    IN  IF /\ yr.ok
           /\ ~(signed /\ Tail(t) # TrimStart(Tail(t)))
           /\ Literal(yr.rest, "-") /\ mo.ok
           /\ Literal(mo.rest, "-") /\ dy.ok
           /\ dy.rest = <<>>
           /\ ValidDate(y, mo.val, dy.val)
        THEN Some(DaysFromCivil(y, mo.val, dy.val))
        ELSE None

\* the value of the digits s[from..to], or -1 when one is not a digit
Field(s, from, to) ==
    IF AllDigits(SubSeq(s, from, to))
    THEN DecToInt([k \in 1..(to - from + 1) |-> DigitVal(s[from + k - 1])])
    ELSE 0 - 1

\* DateTime::parse_from_rfc3339 then with_timezone(&Utc), for instants of
\* whole seconds: YYYY-MM-DDTHH:MM:SS followed by Z or by +HH:MM or -HH:MM
ParseRfc3339(value) ==
    LET s    == value
        zulu == Len(s) = 20 /\ s[20] \in {"Z", "z"}
        off  == Len(s) = 25 /\ s[20] \in {"+", "-"} /\ s[23] = ":"
        y    == Field(s, 1, 4)
        mo   == Field(s, 6, 7)
        d    == Field(s, 9, 10)
        h    == Field(s, 12, 13)
        mi   == Field(s, 15, 16)
        sec  == Field(s, 18, 19)
        oh   == IF off THEN Field(s, 21, 22) ELSE 0
        om   == IF off THEN Field(s, 24, 25) ELSE 0
        east == (oh * 60 + om) * 60 * (IF off /\ s[20] = "-" THEN 0 - 1 ELSE 1)
    IN  IF /\ zulu \/ off
           /\ s[5] = "-" /\ s[8] = "-" /\ s[11] \in {"T", "t"}
           /\ s[14] = ":" /\ s[17] = ":"
           /\ y >= 0 /\ ValidDate(y, mo, d)
           /\ h >= 0 /\ h <= 23 /\ mi >= 0 /\ mi <= 59 /\ sec >= 0 /\ sec <= 59
           /\ oh >= 0 /\ oh <= 23 /\ om >= 0 /\ om <= 59
        THEN Some(Normalise(DaysFromCivil(y, mo, d),
                            h * SecsPerHour + mi * 60 + sec - east))
        ELSE None

parse_time_filter(value, now) ==
    LET relative == try_parse_relative(value, now)
    IN  IF relative.kind = "panic" THEN relative
        ELSE IF relative.kind = "some" THEN Outcome("ok", relative.value)
        ELSE IF ParseRfc3339(value) # None
        THEN Outcome("ok", Unwrap(ParseRfc3339(value)))
        ELSE IF ParseNaiveDate(value) # None
        THEN Outcome("ok", Instant(Unwrap(ParseNaiveDate(value)), 0))
        ELSE Outcome("err", NoInstant)

(***************************************************************************)
(* main.rs: the time window of the run                                     *)
(***************************************************************************)
RECURSIVE IntToDec(_)
\* the decimal digits of a natural number
IntToDec(n) == IF n = 0 THEN <<>> ELSE IntToDec(n \div 10) \o <<n % 10>>

\* main.rs 29-35: `since`, from --since or from --window-days
since_bound(c, t) ==
    IF c.since # None THEN parse_time_filter(Unwrap(c.since), t)
    ELSE IF c.window_days > 0
    THEN LET r == CheckedSub(t, IntToDec(c.window_days), "d")
         IN  IF r = None THEN Outcome("panic", NoInstant)
             ELSE Outcome("ok", Unwrap(r))
    ELSE Outcome("absent", NoInstant)

\* main.rs 37-41: `until`
until_bound(c, t) ==
    IF c.until # None THEN parse_time_filter(Unwrap(c.until), t)
    ELSE Outcome("absent", NoInstant)

\* only a lower bound after the upper one is refused
SinceAfterUntil(s, u) == InstantLess(u, s)

\* main.rs 44: s >= u
SinceNotBeforeUntil(s, u) == ~InstantLess(s, u)

ParseError == "cannot parse time filter"
SinceUntilError == "since must be earlier than until"

\* the option Some(x.value) of a bound that is there, None of an absent one
BoundOption(x) == IF x.kind = "ok" THEN Some(x.value) ELSE None

(***************************************************************************)
(* push_check.rs                                                           *)
(***************************************************************************)
\* The state file: a JSON document and its last_push field, or other text.
\* serde_json::to_string(&PushCheckState { last_push })
EncodeState(t) == [json |-> TRUE, last_push |-> Some(t)]
\* a JSON object without the field
JsonNoField == [json |-> TRUE, last_push |-> None]
\* text that is not JSON
GarbageFile == [json |-> FALSE, last_push |-> None]

\* a file that does not decode is read as one that holds the time 0
DecodeStateLenient(doc) ==
    IF doc.json /\ doc.last_push # None THEN doc.last_push ELSE Some(0)

\* serde_json::from_str::<PushCheckState>: Some(last_push), or None for Err
DecodeState(doc) == IF doc.json /\ doc.last_push # None THEN doc.last_push ELSE None

\* 2^64, and the most minutes a Duration holds (i64::MAX ms)
TwoPow64 == <<1, 8, 4, 4, 6, 7, 4, 4, 0, 7, 3, 7, 0, 9, 5, 5, 1, 6, 1, 6>>
DurationMaxMinutes == <<1, 5, 3, 7, 2, 2, 8, 6, 7, 2, 8, 0, 9, 1, 2>>

RECURSIVE DecSubLoop(_, _, _, _)
\* the digits k and before of a - b, given the borrow of the digits after
DecSubLoop(a, b, k, borrow) ==
    IF k = 0 THEN <<>>
    ELSE LET x == a[k] - b[k] - borrow
         IN  DecSubLoop(a, b, k - 1, IF x < 0 THEN 1 ELSE 0) \o <<(x + 10) % 10>>

\* a - b for a >= b
DecSub(a, b) ==
    Strip(DecSubLoop(a, Repeat(0, Len(a) - Len(b)) \o b, Len(a), 0))

\* `as i64` of a u64: the values above i64::MAX wrap to the negatives
AsI64(u) ==
    IF DecLeq(u, I64Max) THEN [neg |-> FALSE, mag |-> Strip(u)]
    ELSE [neg |-> TRUE, mag |-> DecSub(TwoPow64, Strip(u))]

\* Duration::minutes panics beyond the range of Duration
MinutesOverflow(m) == ~DecLeq(m.mag, DurationMaxMinutes)

SecsPerMinute == 60

\* diff >= Duration::minutes(m), diff in seconds
DiffAtLeast(diff, m) ==
    IF m.neg
    THEN diff >= 0
         \/ DecLeq(IntToDec((0 - diff + SecsPerMinute - 1) \div SecsPerMinute), m.mag)
    ELSE diff >= 0 /\ DecLeq(m.mag, IntToDec(diff \div SecsPerMinute))

\* Duration::num_minutes: whole minutes, towards zero
num_minutes(diff) ==
    IF diff >= 0 THEN diff \div SecsPerMinute
    ELSE 0 - ((0 - diff) \div SecsPerMinute)

\* the three lines run_push_check prints
Reminder(minutes) == [line |-> "reminder", minutes |-> minutes]
Recent(minutes) == [line |-> "recent", minutes |-> minutes]
FirstRecord == [line |-> "first record", minutes |-> 0]

CorruptError == "push record corrupted"

PushCheckCli(threshold_minutes, quiet) ==
    [threshold_minutes |-> threshold_minutes, quiet |-> quiet]

\* push_check.rs 9
DEFAULT_THRESHOLD_MINUTES == 60

MaxInvocations == 2

\* --threshold 1, the default, u64::MAX and 2^63
PushThresholds ==
    {<<1>>, IntToDec(DEFAULT_THRESHOLD_MINUTES), DecSub(TwoPow64, <<1>>),
     <<9, 2, 2, 3, 3, 7, 2, 0, 3, 6, 8, 5, 4, 7, 7, 5, 8, 0, 8>>}

PushArgs == {PushCheckCli(t, q) : t \in PushThresholds, q \in BOOLEAN}

\* the seconds between two invocations; the clock may be set back
ClockSteps == {0 - 60, 59, 3600}

\* the clock before the first invocation, in seconds
PushClock == 100000

\* no invocation yet; seed is the state file as the first one finds it
NoPush ==
    [n |-> 0, args |-> PushCheckCli(<<>>, FALSE), now |-> PushClock,
     last_push |-> None, reads |-> 0, writes |-> 0, seed |-> None]

\* the state file before the first invocation: none, text, JSON without the
\* field, one written an hour before the clock
SeedFiles ==
    {None, Some(GarbageFile), Some(JsonNoField),
     Some(EncodeState(PushClock - 3600))}

(***************************************************************************)
(* Actions                                                                 *)
(***************************************************************************)
\* main.rs 27-47: the bounds are parsed and compared before anything is read
ResolveWindow ==
    /\ program = "main.rs" /\ pc = "start"
    /\ LET s == since_bound(cli, utc_now)
           u == until_bound(cli, utc_now)
       IN  IF s.kind = "panic" \/ (s.kind # "err" /\ u.kind = "panic")
           THEN pc' = "panicked" /\ err' = err /\ window' = window
           ELSE IF s.kind = "err" \/ u.kind = "err"
           THEN pc' = "exit" /\ err' = Some(ParseError) /\ window' = window
           ELSE IF /\ s.kind = "ok" /\ u.kind = "ok"
                   /\ SinceNotBeforeUntil(s.value, u.value)
           THEN pc' = "exit" /\ err' = Some(SinceUntilError) /\ window' = window
           ELSE /\ pc' = "fetch"
                /\ err' = err
                /\ window' = [since |-> BoundOption(s), until |-> BoundOption(u)]
    /\ UNCHANGED <<program, cli, gitlog, commits, ignored, aliases, acc, idx,
                   metrics, stdout, call, utc_now, file, push, history>>

\* parse_time_filter called on a string
CallParseTimeFilter ==
    /\ program = "parse_time_filter" /\ pc = "call"
    /\ call' = [call EXCEPT !.ret = Some(parse_time_filter(call.arg, utc_now))]
    /\ pc' = IF parse_time_filter(call.arg, utc_now).kind = "panic"
             THEN "panicked" ELSE "returned"
    /\ UNCHANGED <<program, cli, gitlog, commits, ignored, aliases, acc, idx,
                   metrics, stdout, err, utc_now, window, file, push, history>>

\* parse_aliases(&cli.alias)?
ParseAliasArgs ==
    /\ program = "modules" /\ pc = "start"
    /\ LET r == parse_aliases(cli.alias)
       IN  IF r.ok
           THEN /\ aliases' = r.map
                /\ pc' = "fetch"
                /\ err' = err
           ELSE /\ aliases' = aliases
                /\ pc' = "exit"
                /\ err' = Some(r.error)
    /\ UNCHANGED <<program, cli, gitlog, commits, ignored, acc, idx, metrics,
                   stdout, call>>
    /\ UNCHANGED <<utc_now, window, file, push, history>>

\* let mut commits = fetch_commits(..)?
FetchCommits ==
    /\ program \in {"main.rs", "modules"} /\ pc = "fetch"
    /\ commits' = gitlog
    /\ pc' = "retain"
    /\ UNCHANGED <<program, cli, gitlog, ignored, aliases, acc, idx, metrics,
                   stdout, err, call>>
    /\ UNCHANGED <<utc_now, window, file, push, history>>

\* main.rs 57-65
RetainCommits ==
    /\ pc = "retain"
    /\ ignored' = IgnoredSet(cli.ignore_author)
    /\ commits' = IF ignored' # {} THEN Retain(commits, ignored') ELSE commits
    /\ pc' = "check"
    /\ UNCHANGED <<program, cli, gitlog, aliases, acc, idx, metrics, stdout,
                   err, call>>
    /\ UNCHANGED <<utc_now, window, file, push, history>>

\* the message is printed but the run goes on into compute_metrics
NoCommitsFallThrough ==
    /\ pc = "check" /\ commits = <<>>
    /\ stdout' = Append(stdout, "no matching commits")
    /\ acc' = InitAcc
    /\ idx' = 1
    /\ pc' = "fold"
    /\ UNCHANGED <<program, cli, gitlog, commits, ignored, aliases, metrics,
                   err, call>>
    /\ UNCHANGED <<utc_now, window, file, push, history>>

\* main.rs 67-73
NoCommits ==
    /\ pc = "check" /\ commits = <<>>
    /\ stdout' = Append(stdout, "no matching commits")
    /\ pc' = "exit"
    /\ UNCHANGED <<program, cli, gitlog, commits, ignored, aliases, acc, idx,
                   metrics, err, call>>
    /\ UNCHANGED <<utc_now, window, file, push, history>>

\* the alias rewrite of the retained commits
RewriteAuthors ==
    /\ program = "modules" /\ pc = "check" /\ commits # <<>>
    /\ commits' = RewriteCommits(aliases, commits)
    /\ pc' = "rewritten"
    /\ UNCHANGED <<program, cli, gitlog, ignored, aliases, acc, idx, metrics,
                   stdout, err, call>>
    /\ UNCHANGED <<utc_now, window, file, push, history>>

\* entering compute_metrics: the accumulators are initialised
CallComputeMetrics ==
    /\ \/ program = "main.rs" /\ pc = "check" /\ commits # <<>>
       \/ program = "modules" /\ pc = "rewritten"
       \/ program = "compute_metrics" /\ pc = "call"
    /\ acc' = InitAcc
    /\ idx' = 1
    /\ pc' = "fold"
    /\ UNCHANGED <<program, cli, gitlog, commits, ignored, aliases, metrics,
                   stdout, err, call>>
    /\ UNCHANGED <<utc_now, window, file, push, history>>

\* metrics.rs: one iteration of the loop
FoldCommitStep ==
    /\ program # "main.rs" /\ pc = "fold" /\ idx <= Len(commits)
    /\ acc' = FoldCommit(acc, commits[idx])
    /\ idx' = idx + 1
    /\ UNCHANGED <<program, cli, gitlog, pc, commits, ignored, aliases,
                   metrics, stdout, err, call>>
    /\ UNCHANGED <<utc_now, window, file, push, history>>

\* main.rs: one iteration of the loop
MainFoldCommitStep ==
    /\ program = "main.rs" /\ pc = "fold" /\ idx <= Len(commits)
    /\ acc' = MainFoldCommit(acc, commits[idx])
    /\ idx' = idx + 1
    /\ UNCHANGED <<program, cli, gitlog, pc, commits, ignored, aliases,
                   metrics, stdout, err, call>>
    /\ UNCHANGED <<utc_now, window, file, push, history>>

\* the rest of compute_metrics; the HashMap yields the authors in any order
ReturnMetrics ==
    /\ pc = "fold" /\ idx > Len(commits)
    /\ \E order \in IterOrders(DOMAIN acc.author_stats) :
          metrics' = Some(RepoMetrics(acc, order, Len(commits),
              IF program = "compute_metrics" THEN <<>> ELSE SortStrings(ignored),
              IF program = "modules" THEN AliasRules(aliases) ELSE <<>>))
    /\ pc' = IF program = "compute_metrics" THEN "returned" ELSE "report"
    /\ UNCHANGED <<program, cli, gitlog, commits, ignored, aliases, acc, idx,
                   stdout, err, call>>
    /\ UNCHANGED <<utc_now, window, file, push, history>>

\* main.rs 79-85
Report ==
    /\ pc = "report"
    /\ stdout' = Append(stdout, IF cli.json THEN "json" ELSE "human report")
    /\ pc' = "exit"
    /\ UNCHANGED <<program, cli, gitlog, commits, ignored, aliases, acc, idx,
                   metrics, err, call>>
    /\ UNCHANGED <<utc_now, window, file, push, history>>

\* severity_label called on a score
CallSeverityLabel ==
    /\ program = "severity_label" /\ pc = "call"
    /\ call' = [call EXCEPT !.ret = Some(severity_label(call.arg))]
    /\ pc' = "returned"
    /\ UNCHANGED <<program, cli, gitlog, commits, ignored, aliases, acc, idx,
                   metrics, stdout, err>>
    /\ UNCHANGED <<utc_now, window, file, push, history>>

\* push_check.rs 29-31: an invocation starts, args parsed and the clock read
BeginPushCheck ==
    /\ program = "push-check" /\ pc \in {"start", "exit", "panicked"}
    /\ push.n < MaxInvocations
    /\ \E args \in PushArgs, step \in ClockSteps :
          push' = [push EXCEPT !.n = push.n + 1, !.args = args,
                               !.now = push.now + step, !.last_push = None,
                               !.reads = 0, !.writes = 0]
    /\ stdout' = <<>>
    /\ err' = None
    /\ pc' = "read"
    /\ UNCHANGED <<program, cli, gitlog, commits, ignored, aliases, acc, idx,
                   metrics, call, utc_now, window, file, history>>

\* read_last_push: push_check.rs 32 and 68-77
ReadLastPush ==
    /\ program = "push-check" /\ pc = "read"
    /\ IF file = None
       THEN /\ push' = [push EXCEPT !.last_push = None]
            /\ pc' = "decide"
            /\ err' = err
       ELSE IF DecodeState(Unwrap(file)) = None
       THEN /\ push' = [push EXCEPT !.reads = push.reads + 1]
            /\ pc' = "exit"
            /\ err' = Some(CorruptError)
       ELSE /\ push' = [push EXCEPT !.reads = push.reads + 1,
                                    !.last_push = DecodeState(Unwrap(file))]
            /\ pc' = "decide"
            /\ err' = err
    /\ UNCHANGED <<program, cli, gitlog, commits, ignored, aliases, acc, idx,
                   metrics, stdout, call, utc_now, window, file, history>>

\* push_check.rs 34-51: what is printed
DecidePush ==
    /\ program = "push-check" /\ pc = "decide"
    /\ IF push.last_push # None
       THEN LET diff      == push.now - Unwrap(push.last_push)
                threshold == AsI64(push.args.threshold_minutes)
            IN  IF MinutesOverflow(threshold)
                THEN pc' = "panicked" /\ stdout' = stdout
                ELSE /\ pc' = "write"
                     /\ stdout' =
                           IF DiffAtLeast(diff, threshold)
                           THEN Append(stdout, Reminder(num_minutes(diff)))
                           ELSE IF ~push.args.quiet
                           THEN Append(stdout, Recent(num_minutes(diff)))
                           ELSE stdout
       ELSE /\ pc' = "write"
            /\ stdout' = IF ~push.args.quiet THEN Append(stdout, FirstRecord)
                         ELSE stdout
    /\ UNCHANGED <<program, cli, gitlog, commits, ignored, aliases, acc, idx,
                   metrics, err, call, utc_now, window, file, push, history>>

\* write_last_push: push_check.rs 53-54 and 79-89
WriteLastPush ==
    /\ program = "push-check" /\ pc = "write"
    /\ file' = Some(EncodeState(push.now))
    /\ push' = [push EXCEPT !.writes = push.writes + 1]
    /\ history' = Append(history, [now |-> push.now, args |-> push.args,
                                   printed |-> stdout])
    /\ pc' = "exit"
    /\ UNCHANGED <<program, cli, gitlog, commits, ignored, aliases, acc, idx,
                   metrics, stdout, err, call, utc_now, window>>

(***************************************************************************)
(* Inputs                                                                  *)
(***************************************************************************)
\* cli.rs: the default of --window-days
DefaultWindowDays == 90

Cli(ignore_author, alias, json) ==
    [ignore_author |-> ignore_author, alias |-> alias, json |-> json,
     since |-> None, until |-> None, window_days |-> DefaultWindowDays]

\* the command line with --since, --until and --window-days
CliWindow(since, until, window_days) ==
    [Cli(<<>>, <<>>, FALSE) EXCEPT
        !.since = since, !.until = until, !.window_days = window_days]

Ts(utc, off) == [utc |-> utc, off |-> off]
Commit(author, utc, off) == [author |-> author, timestamp |-> Ts(utc, off)]

\* the sequences of at most n elements of S
SeqsUpTo(S, n) == UNION {[1..k -> S] : k \in 0..n}

NoCall == [arg |-> None, ret |-> None]

\* 2026-11-04T12:00:00Z
RunNow == Instant(20761, 43200)

NoWindow == [since |-> None, until |-> None]

StartAt(p, c, g, a, t, f) ==
    /\ program = p
    /\ cli = c
    /\ gitlog = g
    /\ pc = IF p \in {"main.rs", "modules", "push-check"} THEN "start" ELSE "call"
    /\ commits = IF p = "compute_metrics" THEN g ELSE <<>>
    /\ ignored = {}
    /\ aliases = EmptyMap
    /\ acc = InitAcc
    /\ idx = 0
    /\ metrics = None
    /\ stdout = <<>>
    /\ err = None
    /\ call = a
    /\ utc_now = t
    /\ window = NoWindow
    /\ file = f
    /\ push = [NoPush EXCEPT !.seed = f]
    /\ history = <<>>

Start(p, c, g, a) == StartAt(p, c, g, a, RunNow, None)

MaxCommits == 4
MaxDay == 6
MaxPerAuthor == 2
MaxLog == 3
MaxAliasArgs == 2
ScoreDen == 4

AuthorA == <<"A">>
AuthorB == <<"B">>
AuthorC == <<"C">>
AuthorD == <<"D">>
AuthorAB == <<"A", "B">>
AuthorLowerA == <<"a">>

\* Commits spread over the classes of section 4.2 (local time in brackets).
TimePool ==
    {Commit(AuthorA, 12, 0),    \* [Thu day 0, 12:00] working hours
     Commit(AuthorB, 18, 0),    \* [Thu day 0, 18:00] the upper cutoff
     Commit(AuthorA, 47, 0),    \* [Fri day 1, 23:00] after hours, night
     Commit(AuthorB, 42, 8),    \* [Sat day 2, 02:00] after hours, night, weekend
     Commit(AuthorC, 84, 0),    \* [Sun day 3, 12:00] weekend
     Commit(AuthorA, 105, 0)}   \* [Mon day 4, 09:00] after hours

TimeInputs ==
    {[program |-> p, cli |-> Cli(<<>>, <<>>, p = "modules"), gitlog |-> g,
      call |-> NoCall] :
        p \in {"main.rs", "modules", "compute_metrics"},
        g \in SeqsUpTo(TimePool, MaxCommits)}

\* One commit at 12:00 UTC on each date of S, in ascending order.
NoonCommits(S) ==
    LET dates == SortedDates(S)
    IN  [k \in 1..Len(dates) |-> Commit(AuthorA, dates[k] * HoursPerDay + 12, 0)]

StreakInputs ==
    {[program |-> "compute_metrics", cli |-> Cli(<<>>, <<>>, FALSE),
      gitlog |-> NoonCommits(S), call |-> NoCall] : S \in SUBSET (0..MaxDay)}

SingleOffsets == {0, 8, -5}

\* One commit at every hour of the first week, seen under three offsets.
SingleInputs ==
    {[program |-> p, cli |-> Cli(<<>>, <<>>, FALSE),
      gitlog |-> <<Commit(AuthorA, u, off)>>, call |-> NoCall] :
        p \in {"main.rs", "compute_metrics"},
        u \in 0..(DaysPerWeek * HoursPerDay - 1), off \in SingleOffsets}

\* Two commits of one instant recorded under different offsets, and a later one.
OffsetPool ==
    {Commit(AuthorA, 12, 0),    \* 1970-01-01T12:00:00+00:00
     Commit(AuthorA, 12, 8),    \* 1970-01-01T20:00:00+08:00, the same instant
     Commit(AuthorB, 30, 0)}    \* 1970-01-02T06:00:00+00:00

OffsetInputs ==
    {[program |-> "compute_metrics", cli |-> Cli(<<>>, <<>>, FALSE),
      gitlog |-> g, call |-> NoCall] : g \in SeqsUpTo(OffsetPool, MaxLog)}

\* The strings given to --since and --until.
Str30d == <<"3", "0", "d">>
Str1d == <<"1", "d">>
StrBadUnit == <<"3", "x">>
StrDateNov1 == <<"2", "0", "2", "6", "-", "1", "1", "-", "0", "1">>
StrDateDec1 == <<"2", "0", "2", "6", "-", "1", "2", "-", "0", "1">>
StrDateShort == <<"2", "0", "2", "4", "-", "3", "-", "6">>
StrDateFeb29 == <<"2", "0", "2", "3", "-", "0", "2", "-", "2", "9">>
StrDateTrailing == <<"2", "0", "2", "6", "-", "1", "1", "-", "0", "1", " ">>
StrRfcNov1Zulu == <<"2", "0", "2", "6", "-", "1", "1", "-", "0", "1", "T", "0", "0", ":", "0", "0", ":", "0", "0", "Z">>
StrRfcNov1East == <<"2", "0", "2", "6", "-", "1", "1", "-", "0", "1", "T", "0", "8", ":", "0", "0", ":", "0", "0", "+", "0", "8", ":", "0", "0">>
StrRfcNow == <<"2", "0", "2", "6", "-", "1", "1", "-", "0", "4", "T", "1", "2", ":", "0", "0", ":", "0", "0", "Z">>
StrRfcBadHour == <<"2", "0", "2", "6", "-", "1", "1", "-", "0", "1", "T", "2", "4", ":", "0", "0", ":", "0", "0", "Z">>
StrCjkUnit == <<"3", CjkDay>>

FilterAmounts ==
    {<<>>, <<"0">>, <<"3">>, <<"3", "0">>, <<"-", "3">>, <<"+", "2">>,
     <<"3", ".", "5">>,
     <<"1">> \o Repeat("0", 8),     \* more days than DateTime spans
     <<"2">> \o Repeat("0", 11),    \* more days than a Duration holds
     <<"9">> \o Repeat("0", 18),    \* just below i64::MAX
     Repeat("9", 20)}               \* above i64::MAX

FilterSuffixes == {"d", "w", "h", "D", "x", CjkDay, LatinEAcute}

Padded(s) == <<" ">> \o s \o <<" ">>

RelativePool ==
    {a \o <<u>> : a \in FilterAmounts, u \in FilterSuffixes}
    \cup {Padded(a \o <<u>>) : a \in FilterAmounts, u \in FilterSuffixes}

AbsolutePool ==
    {StrDateNov1, StrDateDec1, StrDateShort, StrDateFeb29, StrDateTrailing,
     Padded(StrDateNov1), StrRfcNov1Zulu, StrRfcNov1East, StrRfcNow,
     StrRfcBadHour, <<>>}

FilterPool == RelativePool \cup AbsolutePool

\* the run's clock, and the first instant of 1970
Nows == {RunNow, Instant(0, 0)}

FilterInputs ==
    {[program |-> "parse_time_filter", cli |-> Cli(<<>>, <<>>, FALSE),
      gitlog |-> <<>>, call |-> [arg |-> v, ret |-> None], now |-> t] :
        v \in FilterPool, t \in Nows}

SinceArgs ==
    {None, Some(Str30d), Some(StrDateNov1), Some(StrDateDec1),
     Some(StrRfcNov1East), Some(StrBadUnit), Some(StrCjkUnit)}

UntilArgs ==
    {None, Some(Str1d), Some(Str30d), Some(StrDateNov1), Some(StrDateDec1),
     Some(StrDateShort), Some(StrBadUnit)}

\* no window, the default one, and one longer than DateTime spans
WindowDays == {0, DefaultWindowDays, 100000000}

WindowInputs ==
    {[program |-> "main.rs", cli |-> CliWindow(s, u, w), gitlog |-> g,
      call |-> NoCall] :
        s \in SinceArgs, u \in UntilArgs, w \in WindowDays,
        g \in {<<>>, <<Commit(AuthorA, 12, 0)>>}}

Inputs ==
    TimeInputs \cup StreakInputs \cup SingleInputs \cup OffsetInputs
    \cup WindowInputs

RankAuthors == <<AuthorA, AuthorB, AuthorC, AuthorD>>

RECURSIVE RankLog(_, _)
\* For the k-th author and on, load[k][2] commits at 20:00 then
\* load[k][1] - load[k][2] commits at 12:00 of day 0.
RankLog(load, k) ==
    IF k > Len(RankAuthors) THEN <<>>
    ELSE Repeat(Commit(RankAuthors[k], 20, 0), load[k][2])
         \o Repeat(Commit(RankAuthors[k], 12, 0), load[k][1] - load[k][2])
         \o RankLog(load, k + 1)

Loads == {<<n, k>> : n \in 0..MaxPerAuthor, k \in 0..MaxPerAuthor} \cap
         {x \in (0..MaxPerAuthor) \X (0..MaxPerAuthor) : x[2] <= x[1]}

RankInputs ==
    {[program |-> "compute_metrics", cli |-> Cli(<<>>, <<>>, FALSE),
      gitlog |-> RankLog(load, 1), call |-> NoCall] :
        load \in [1..Len(RankAuthors) -> Loads]}

IgnorePool ==
    {Commit(AuthorA, 12, 0), Commit(AuthorA, 20, 0),
     Commit(AuthorAB, 12, 0), Commit(BitsAdmin, 12, 0)}

IgnoreArgs == {<<>>, <<AuthorA>>, <<AuthorAB, AuthorA>>, <<AuthorB>>}

IgnoreInputs ==
    {[program |-> "main.rs", cli |-> Cli(ig, <<>>, Len(ig) = 1), gitlog |-> g,
      call |-> NoCall] :
        ig \in IgnoreArgs, g \in SeqsUpTo(IgnorePool, MaxLog)}

AliasPool ==
    {<<"a", "=", "A">>,                      \* a=A
     <<" ", "a", " ", "=", " ", "B", " ">>,  \* " a = B "
     <<"B", "=", "A">>,                      \* B=A
     <<"a", "A">>,                           \* no '='
     <<"=", " ", "A">>}                      \* empty left side

AliasLogPool ==
    {Commit(AuthorLowerA, 12, 0), Commit(AuthorA, 20, 0), Commit(AuthorB, 12, 0)}

AliasInputs ==
    {[program |-> "modules", cli |-> Cli(ig, al, FALSE), gitlog |-> g,
      call |-> NoCall] :
        ig \in {<<>>, <<AuthorA>>},
        al \in SeqsUpTo(AliasPool, MaxAliasArgs),
        g \in SeqsUpTo(AliasLogPool, MaxLog)}

AuthorInputs == RankInputs \cup IgnoreInputs \cup AliasInputs

\* the scores n / ScoreDen of [0, 100]
Scores == {Rat(n, ScoreDen) : n \in 0..(ScoreCap * ScoreDen)}

LabelInputs ==
    {[program |-> "severity_label", cli |-> Cli(<<>>, <<>>, FALSE),
      gitlog |-> <<>>, call |-> [arg |-> s, ret |-> None]] : s \in Scores}

(***************************************************************************)
(* Specifications                                                          *)
(***************************************************************************)
Init == \E i \in Inputs : Start(i.program, i.cli, i.gitlog, i.call)

Next ==
    \/ ResolveWindow
    \/ ParseAliasArgs
    \/ FetchCommits
    \/ RetainCommits
    \/ NoCommits
    \/ RewriteAuthors
    \/ CallComputeMetrics
    \/ FoldCommitStep
    \/ MainFoldCommitStep
    \/ ReturnMetrics
    \/ Report

\* the analysis run and compute_metrics over commits of all temporal classes
Spec == Init /\ [][Next]_vars

InitAuthors == \E i \in AuthorInputs : Start(i.program, i.cli, i.gitlog, i.call)

\* the same over the inputs that vary authors, ignore set and aliases
SpecAuthors == InitAuthors /\ [][Next]_vars

InitFilter ==
    \E i \in FilterInputs :
        StartAt(i.program, i.cli, i.gitlog, i.call, i.now, None)

\* parse_time_filter over the strings of the pool
SpecFilter == InitFilter /\ [][CallParseTimeFilter]_vars

InitPush ==
    \E f \in SeedFiles :
        StartAt("push-check", Cli(<<>>, <<>>, FALSE), <<>>, NoCall, RunNow, f)

NextPush ==
    \/ BeginPushCheck
    \/ ReadLastPush
    \/ DecidePush
    \/ WriteLastPush

\* invocations of push-check one after the other on one state file
SpecPush == InitPush /\ [][NextPush]_vars

InitLabel == \E i \in LabelInputs : Start(i.program, i.cli, i.gitlog, i.call)

\* severity_label over the scores
SpecLabel == InitLabel /\ [][CallSeverityLabel]_vars

(***************************************************************************)
(* Properties                                                              *)
(***************************************************************************)
Returned == metrics # None
M == Unwrap(metrics)

\* the local dates of a commit sequence
DatesOf(cs) == {date_naive(cs[k].timestamp) : k \in 1..Len(cs)}
\* the number of its commits on date d
CountOn(cs, d) == Cardinality({k \in 1..Len(cs) : date_naive(cs[k].timestamp) = d})

\* C1: after every folded commit and in the returned record, after_hours,
\* weekend and night are at most the number of commits, overtime_days <=
\* commit_days <= that number, and unique_authors <= that number.
C1_CounterBounds ==
    /\ pc = "fold" =>
          LET n == idx - 1
          IN  /\ acc.after_hours <= n
              /\ acc.weekend <= n
              /\ acc.night <= n
              /\ overtime_days(acc.day_stats) <= commit_days(acc.day_stats)
              /\ commit_days(acc.day_stats) <= n
              /\ Cardinality(DOMAIN acc.author_stats) <= n
    /\ Returned =>
          /\ M.after_hours_commits <= M.total_commits
          /\ M.weekend_commits <= M.total_commits
          /\ M.night_commits <= M.total_commits
          /\ M.overtime_days <= M.commit_days
          /\ M.commit_days <= M.total_commits
          /\ M.unique_authors <= M.total_commits

\* a record where after-hours commits, overtime days and commit days are
\* all counted and all differ
C1_Witness ==
    /\ Returned
    /\ 0 < M.overtime_days
    /\ M.overtime_days < M.commit_days
    /\ M.commit_days < M.total_commits
    /\ M.after_hours_commits = M.total_commits - 1
    /\ M.unique_authors > 1

\* C2: the severity score is in [0, 100], it is 0 iff total_commits = 0,
\* and it is min(100, ah/total*40 + we/total*20 + nt/total*20 +
\* overtime_days/commit_days*10 + min(streak,14)/14*10) as an exact rational.
C2_SeverityRange ==
    Returned =>
        LET s == M.severity_score
            t == M.total_commits
            c == M.commit_days
        IN  /\ s.den > 0
            /\ 0 <= s.num
            /\ s.num <= ScoreCap * s.den
            /\ (s.num = 0) <=> (t = 0)
            /\ t > 0 =>
                  LET sum == StreakCap * c * (40 * M.after_hours_commits
                                 + 20 * M.weekend_commits + 20 * M.night_commits)
                             + StreakCap * t * 10 * M.overtime_days
                             + t * c * 10 * Min(M.longest_streak_days, StreakCap)
                      den == StreakCap * t * c
                  IN  IF sum >= ScoreCap * den
                      THEN s.num = ScoreCap * s.den
                      ELSE s.num * den = sum * s.den

\* a record of weekday working-hours commits only, whose score is the
\* streak term alone
C2_Witness ==
    /\ Returned
    /\ M.total_commits > 0
    /\ M.after_hours_commits = 0 /\ M.weekend_commits = 0
    /\ M.severity_score.num > 0
    /\ M.severity_score.num < M.severity_score.den

\* the length of the longest run d, d+1, .., d+k-1 inside S
MaxRun(S) ==
    IF S = {} THEN 0
    ELSE CHOOSE k \in 1..Cardinality(S) :
            /\ \E d \in S : \A j \in 0..(k - 1) : d + j \in S
            /\ \A d \in S : \E j \in 0..k : d + j \notin S

\* C3: longest_streak_days is the length of the longest run of consecutive
\* calendar dates among the distinct local commit dates: 0 for none, 1 for
\* one date, 3 for three consecutive dates, 2 for three dates with exactly
\* one consecutive adjacent pair.
C3_LongestStreak ==
    Returned =>
        LET S == DatesOf(commits)
        IN  /\ M.longest_streak_days = MaxRun(S)
            /\ S = {} => M.longest_streak_days = 0
            /\ Cardinality(S) = 1 => M.longest_streak_days = 1
            /\ (\E d \in S : S = {d, d + 1, d + 2}) => M.longest_streak_days = 3
            /\ (\E d \in S : \E g \in 3..(2 * MaxDay) :
                   S = {d, d + 1, d + g} \/ S = {d, d + g - 1, d + g})
                 => M.longest_streak_days = 2

\* three dates, one consecutive pair and a gap, then a longer run elsewhere
C3_Witness ==
    /\ Returned
    /\ DatesOf(commits) = {0, 1, 3, 4, 5}
    /\ M.longest_streak_days = 3

\* C4: busiest_day is none iff there is no commit; otherwise it is a commit
\* date with the largest total, among those one with the most after-hours
\* commits, and it carries that date's totals.
C4_BusiestDay ==
    Returned =>
        /\ (M.busiest_day = None) <=> (commits = <<>>)
        /\ M.busiest_day # None =>
              LET b  == Unwrap(M.busiest_day)
                  ds == acc.day_stats
              IN  /\ b.date \in DatesOf(commits)
                  /\ b.total_commits = CountOn(commits, b.date)
                  /\ b.total_commits = ds[b.date].total_commits
                  /\ b.after_hours_commits = ds[b.date].after_hours_commits
                  /\ \A d \in DatesOf(commits) :
                        /\ CountOn(commits, d) <= b.total_commits
                        /\ CountOn(commits, d) = b.total_commits
                             => ds[d].after_hours_commits <= b.after_hours_commits

\* two dates tie on the total and the earlier one wins on after-hours commits
C4_Witness ==
    /\ Returned
    /\ M.busiest_day # None
    /\ \E d \in DatesOf(commits) :
          /\ d > Unwrap(M.busiest_day).date
          /\ CountOn(commits, d) = Unwrap(M.busiest_day).total_commits
          /\ acc.day_stats[d].after_hours_commits
                 < Unwrap(M.busiest_day).after_hours_commits

\* the summary of author x in the final accumulators
Sum(x) == AuthorSummary(x, acc.author_stats[x])

\* a strictly precedes b in the night-owl order: greater ratio, then more
\* after-hours commits
NightBefore(a, b) ==
    \/ a.after_hours_commits * b.total_commits > b.after_hours_commits * a.total_commits
    \/ /\ a.after_hours_commits * b.total_commits = b.after_hours_commits * a.total_commits
       /\ a.after_hours_commits > b.after_hours_commits

\* a strictly precedes b in the chill order: smaller ratio, then more commits
ChillBefore(a, b) ==
    \/ a.after_hours_commits * b.total_commits < b.after_hours_commits * a.total_commits
    \/ /\ a.after_hours_commits * b.total_commits = b.after_hours_commits * a.total_commits
       /\ a.total_commits > b.total_commits

\* a strictly precedes b in the order of the given list
Before(which, a, b) ==
    IF which = "nightowls" THEN NightBefore(a, b) ELSE ChillBefore(a, b)

Ranked(list, which) ==
    LET authors == DOMAIN acc.author_stats
        listed  == {list[i].name : i \in 1..Len(list)}
    IN  /\ Len(list) = Min(TopN, Cardinality(authors))
        /\ \A i \in 1..Len(list) :
              /\ list[i].name \in authors
              /\ list[i] = Sum(list[i].name)
              /\ list[i].after_hours_ratio.num * list[i].total_commits
                   = list[i].after_hours_commits * list[i].after_hours_ratio.den
        /\ \A i, j \in 1..Len(list) :
              i < j => /\ list[i].name # list[j].name
                       /\ ~Before(which, list[j], list[i])
        /\ \A x \in authors \ listed :
              \A i \in 1..Len(list) : ~Before(which, Sum(x), list[i])

\* C5: top_after_hours_authors is the first min(3, unique_authors) summaries
\* by ratio descending then after-hours commits descending, chill_authors
\* the first min(3, unique_authors) by ratio ascending then total commits
\* descending: each list is sorted and no author left out strictly precedes
\* a listed one.
C5_Rankings ==
    Returned =>
        /\ Ranked(M.top_after_hours_authors, "nightowls")
        /\ Ranked(M.chill_authors, "chill")

\* four authors: a tie on the ratio is settled by the after-hours count, the
\* author left out comes strictly after the third, and the chill list
\* leaves out another author
C5_Witness ==
    /\ Returned
    /\ M.unique_authors = 4
    /\ LET top == M.top_after_hours_authors
           ch  == M.chill_authors
       IN  /\ top[1].after_hours_ratio = top[2].after_hours_ratio
           /\ top[1].after_hours_commits > top[2].after_hours_commits
           /\ {top[i].name : i \in 1..3} # {ch[i].name : i \in 1..3}
           /\ NightBefore(top[3], Sum(CHOOSE x \in DOMAIN acc.author_stats :
                                        x \notin {top[i].name : i \in 1..3}))

\* C6: the label follows the integer part of the score: below 21 "at ease",
\* from 21 below 41 "basically healthy", from 41 below 61 "sustained
\* overtime", from 61 below 81 "half cow-horse", from 81 "full cow-horse
\* alert"; 20 <= s < 21 is "at ease" and s = 21 is "basically healthy".
C6_LabelBands ==
    (program = "severity_label" /\ call.ret # None) =>
        LET s == call.arg
            l == Unwrap(call.ret)
            Below(n) == s.num < n * s.den
        IN  /\ Below(21) <=> l = "at ease"
            /\ (~Below(21) /\ Below(41)) <=> l = "basically healthy"
            /\ (~Below(41) /\ Below(61)) <=> l = "sustained overtime"
            /\ (~Below(61) /\ Below(81)) <=> l = "half cow-horse"
            /\ ~Below(81) <=> l = "full cow-horse alert"
            /\ (~Below(20) /\ Below(21)) => l = "at ease"
            /\ (s.num = 21 * s.den) => l = "basically healthy"

\* a score strictly between 20 and 21, past the half
C6_Witness ==
    /\ program = "severity_label"
    /\ call.ret = Some("at ease")
    /\ call.arg.num * 2 > 41 * call.arg.den

RECURSIVE FoldAll(_, _, _)
\* the accumulators after the loop of the given copy of compute_metrics
FoldAll(cs, a, copy) ==
    IF cs = <<>> THEN a
    ELSE FoldAll(Tail(cs),
                 IF copy = "main.rs" THEN MainFoldCommit(a, Head(cs))
                 ELSE FoldCommit(a, Head(cs)),
                 copy)

SeverityOf(a, total) ==
    severity_score(total, a.after_hours, a.weekend, a.night,
                   overtime_days(a.day_stats), commit_days(a.day_stats),
                   longest_streak(SortedDates(DOMAIN a.day_stats)))

\* C7: with the cutoff frozen at 18 a commit is after-hours iff its local
\* hour is < 10 or >= 18, in every aggregator: compute_metrics of main.rs
\* and of metrics.rs return the same after_hours_commits, overtime_days,
\* per-author after-hours counts and severity.
C7_AggregatorsAgree ==
    Returned =>
        LET a1 == FoldAll(commits, InitAcc, "main.rs")
            a2 == FoldAll(commits, InitAcc, "metrics.rs")
        IN  /\ M.after_hours_commits =
                  Cardinality({k \in 1..Len(commits) :
                      hour(commits[k].timestamp) < 10
                      \/ hour(commits[k].timestamp) >= 18})
            /\ a1.after_hours = a2.after_hours
            /\ overtime_days(a1.day_stats) = overtime_days(a2.day_stats)
            /\ \A x \in DOMAIN a1.author_stats :
                  a1.author_stats[x].after_hours_commits
                      = a2.author_stats[x].after_hours_commits
            /\ SeverityOf(a1, Len(commits)) = SeverityOf(a2, Len(commits))

\* the ignore set of the run: BitsAdmin and every --ignore-author value
IgnoreSetOf == {BitsAdmin} \cup SeqToSet(cli.ignore_author)
NotIgnored(c) == c.author \notin IgnoreSetOf
\* the fetched commits whose author is not in it, in their order
Kept == SelectSeq(gitlog, NotIgnored)

\* C8: a fetched commit is dropped before aggregation iff its raw author
\* equals a member of the ignore set (BitsAdmin plus the --ignore-author
\* values); the retained commits keep their order, no ignored author is
\* aggregated, and ignored_authors is that set in ascending order.
C8_IgnoreSet ==
    /\ (program \in {"main.rs", "modules"} /\ pc = "check") => commits = Kept
    /\ (program = "main.rs" /\ pc \in {"fold", "report", "exit"}) =>
          /\ commits = Kept
          /\ (DOMAIN acc.author_stats) \cap IgnoreSetOf = {}
    /\ (program \in {"main.rs", "modules"} /\ Returned) =>
          LET l == M.ignored_authors
          IN  /\ SeqToSet(l) = IgnoreSetOf
              /\ \A i \in 1..(Len(l) - 1) : StrLess(l[i], l[i + 1])

\* `A` is ignored and dropped with BitsAdmin, `AB` is retained twice
C8_Witness ==
    /\ program = "main.rs" /\ Returned
    /\ cli.ignore_author = <<AuthorA>>
    /\ M.ignored_authors = <<AuthorA, BitsAdmin>>
    /\ Len(gitlog) = 3
    /\ \E i, j \in 1..3 : gitlog[i].author = AuthorA /\ gitlog[j].author = BitsAdmin
    /\ Len(commits) = 1 /\ commits[1].author = AuthorAB

\* the name a raw author is aggregated under
Canonical(author) == IF author \in DOMAIN aliases THEN aliases[author] ELSE author
KeptUnder(n) == {k \in 1..Len(Kept) : Canonical(Kept[k].author) = n}

WellFormed(e) ==
    /\ Len(SplitN2(e)) = 2
    /\ Trim(SplitN2(e)[1]) # <<>>
    /\ Trim(SplitN2(e)[2]) # <<>>

\* two values with the same trimmed left side
DuplicateFrom(raw) ==
    \E i, j \in 1..Len(raw) :
        /\ i < j
        /\ WellFormed(raw[i]) /\ WellFormed(raw[j])
        /\ Trim(SplitN2(raw[i])[1]) = Trim(SplitN2(raw[j])[1])

\* C10: when two --alias entries have the same trimmed `from`, alias
\* parsing reports an error and nothing is aggregated.
C10_DuplicateFromRejected ==
    (program = "modules" /\ pc # "start" /\ DuplicateFrom(cli.alias)) =>
        /\ err # None
        /\ pc = "exit"
        /\ metrics = None

\* C11: whenever no commit is left after the fetch and the ignore filter,
\* the run prints the "no matching commits" line and ends with success: it
\* never enters compute_metrics and never emits a metrics record, with
\* --json as without it.
C11_NoCommitsExit ==
    /\ [](program \in {"main.rs", "modules"} /\ Kept = <<>> =>
            /\ pc \notin {"rewritten", "fold", "report", "returned"}
            /\ metrics = None
            /\ acc = InitAcc /\ idx = 0
            /\ \A k \in 1..Len(stdout) : stdout[k] = "no matching commits")
    /\ [][pc = "check" /\ commits = <<>> =>
            /\ pc' = "exit"
            /\ err' = None
            /\ stdout' = <<"no matching commits">>
            /\ metrics' = None]_vars

\* three fetched commits, all of ignored authors, under --json
C11_Witness ==
    /\ program = "main.rs" /\ cli.json
    /\ Len(gitlog) = 3 /\ Kept = <<>>
    /\ pc = "exit" /\ err = None
    /\ stdout = <<"no matching commits">>
    /\ metrics = None

RECURSIVE SumField(_, _)
\* the sum of one counter over the entries of a map
SumField(map, field) ==
    IF DOMAIN map = {} THEN 0
    ELSE LET k == CHOOSE x \in DOMAIN map : TRUE
         IN  map[k][field]
             + SumField([x \in DOMAIN map \ {k} |-> map[x]], field)

\* the number of commits folded so far
Folded == IF idx = 0 THEN 0 ELSE idx - 1

\* C18: after every folded commit and in the final record, the per-date
\* totals sum to the number of commits and the per-date after-hours counts
\* to the global after-hours counter; the per-author totals, after-hours,
\* weekend and night counts sum to the number of commits and to the three
\* global counters; every date and author entry has at least one commit;
\* unique_authors is the number of distinct authors of the input.
C18_Conservation ==
    /\ program \in {"main.rs", "modules", "compute_metrics"} =>
          /\ SumField(acc.day_stats, "total_commits") = Folded
          /\ SumField(acc.day_stats, "after_hours_commits") = acc.after_hours
          /\ SumField(acc.author_stats, "total_commits") = Folded
          /\ SumField(acc.author_stats, "after_hours_commits") = acc.after_hours
          /\ SumField(acc.author_stats, "weekend_commits") = acc.weekend
          /\ SumField(acc.author_stats, "night_commits") = acc.night
          /\ \A d \in DOMAIN acc.day_stats : acc.day_stats[d].total_commits >= 1
          /\ \A x \in DOMAIN acc.author_stats :
                acc.author_stats[x].total_commits >= 1
    /\ Returned =>
          /\ Folded = Len(commits)
          /\ M.total_commits = Len(commits)
          /\ M.after_hours_commits = acc.after_hours
          /\ M.weekend_commits = acc.weekend
          /\ M.night_commits = acc.night
          /\ M.commit_days = Cardinality(DOMAIN acc.day_stats)
          /\ M.unique_authors =
                Cardinality({commits[k].author : k \in 1..Len(commits)})

\* in the middle of the loop: three of four commits folded, on two dates by
\* two authors, each global counter positive
C18_Witness ==
    /\ program = "compute_metrics" /\ pc = "fold"
    /\ Len(commits) = 4 /\ idx = 4
    /\ Cardinality(DOMAIN acc.day_stats) = 2
    /\ Cardinality(DOMAIN acc.author_stats) = 2
    /\ acc.after_hours = 2 /\ acc.weekend = 1 /\ acc.night = 2
    /\ \E d \in DOMAIN acc.day_stats : acc.day_stats[d].total_commits = 2

\* C14: compute_metrics returns the same record for the same commits,
\* ignore list and alias rules, the members and the order of both ranked
\* author lists included, in whatever order the per-author map is iterated.
C14_Deterministic ==
    Returned =>
        \A order \in IterOrders(DOMAIN acc.author_stats) :
            RepoMetrics(acc, order, Len(commits), M.ignored_authors,
                        M.alias_rules) = M

\* the only commit of the input falls on a weekday at an hour of [10, 18)
SingleWorkdayCommit ==
    /\ Returned /\ Len(commits) = 1
    /\ ~is_weekend(weekday(commits[1].timestamp))
    /\ hour(commits[1].timestamp) >= WorkStartHour
    /\ hour(commits[1].timestamp) < WorkEndHour

\* the summary of an author with one commit inside working hours
CalmSummary(name) ==
    [name |-> name, total_commits |-> 1, after_hours_commits |-> 0,
     weekend_commits |-> 0, night_commits |-> 0,
     after_hours_ratio |-> Rat(0, 1)]

\* the fields of the record apart from the score
SingleCommitRecord ==
    /\ M.total_commits = 1
    /\ M.after_hours_commits = 0 /\ M.weekend_commits = 0
    /\ M.night_commits = 0
    /\ M.commit_days = 1 /\ M.overtime_days = 0
    /\ M.longest_streak_days = 1
    /\ M.busiest_day = Some([date |-> date_naive(commits[1].timestamp),
                             total_commits |-> 1, after_hours_commits |-> 0])
    /\ M.severity_label = "at ease"
    /\ M.top_after_hours_authors = <<CalmSummary(commits[1].author)>>
    /\ M.chill_authors = <<CalmSummary(commits[1].author)>>

\* C15 as stated: for an input of one commit on a weekday at an hour of
\* [10, 18) the record has total 1, the three temporal counters 0, one
\* commit day, no overtime day, streak 1, that date as busiest day, label
\* "at ease", both ranked lists holding just the author with ratio 0, and
\* severity_score 0.0.
C15_SingleCommitScoreZero ==
    SingleWorkdayCommit => SingleCommitRecord /\ M.severity_score = Rat(0, 1)

\* C15 amended: the same, with severity_score 10/14 (the streak term of a
\* streak of one day).
C15_SingleCommit ==
    SingleWorkdayCommit =>
        SingleCommitRecord /\ M.severity_score = Rat(WeightStreak, StreakCap)

\* a commit on Wednesday at 14:00 +08:00 has been scored
C15_Witness ==
    /\ program = "compute_metrics" /\ SingleWorkdayCommit
    /\ commits[1].timestamp.off = 8
    /\ weekday(commits[1].timestamp) = 2
    /\ hour(commits[1].timestamp) = 14
    /\ M.severity_score = Rat(5, 7)

\* the permutations of 1..n
Perms(n) == {p \in [1..n -> 1..n] : \A i, j \in 1..n : p[i] = p[j] => i = j}
\* the sequence cs read in the order p
Permuted(cs, p) == [k \in 1..Len(cs) |-> cs[p[k]]]

\* C19: compute_metrics returns the same record for every reordering of its
\* input commits: each field is the same, the analysis_start and
\* analysis_end timestamps with the offset they carry included (also when
\* two commits denote one instant under different offsets), and the ranked
\* lists up to the iteration order of the author map.
C19_OrderInvariant ==
    (program = "compute_metrics" /\ Returned) =>
        \A p \in Perms(Len(commits)) :
            \E order \in IterOrders(DOMAIN acc.author_stats) :
                RepoMetrics(FoldAll(Permuted(commits, p), InitAcc, "metrics.rs"),
                            order, Len(commits), M.ignored_authors,
                            M.alias_rules) = M

\* the relative form of a filter: the digits of a positive whole number and
\* one of the units d, w, h in either case, spaces around it ignored
RelativeForm(value) ==
    LET t  == ToAsciiLowercase(Trim(value))
        ds == SubSeq(t, 1, Len(t) - 1)
    IN  /\ Len(t) >= 2
        /\ t[Len(t)] \in {"d", "w", "h"}
        /\ ds # <<>> /\ AllDigits(ds)
        /\ \E k \in 1..Len(ds) : ds[k] # "0"

\* one of the three forms of a time filter
Recognised(value) ==
    \/ RelativeForm(value)
    \/ ParseRfc3339(value) # None
    \/ ParseNaiveDate(value) # None

\* C12: parse_time_filter ends every call by returning, never by a panic,
\* whatever the string (a last character outside ASCII and a relative
\* filter with a very large number included), and it returns an error for
\* every string that is none of the relative form, an RFC 3339 instant and
\* a calendar date.
C12_ErrorNeverPanic ==
    (program = "parse_time_filter" /\ pc # "call") =>
        /\ pc = "returned"
        /\ Unwrap(call.ret).kind \in {"ok", "err"}
        /\ ~Recognised(call.arg) => Unwrap(call.ret).kind = "err"

\* the lower bound the options ask for: --since, else now minus
\* --window-days, else none
LowerBound ==
    IF cli.since # None THEN parse_time_filter(Unwrap(cli.since), utc_now)
    ELSE IF cli.window_days > 0
    THEN Outcome("ok", Instant(utc_now.day - cli.window_days, utc_now.sec))
    ELSE Outcome("absent", NoInstant)

\* the upper bound: --until, else none
UpperBound ==
    IF cli.until # None THEN parse_time_filter(Unwrap(cli.until), utc_now)
    ELSE Outcome("absent", NoInstant)

\* C13: when the effective lower bound (--since, or now minus
\* --window-days) is not strictly earlier than --until, the run ends with
\* an error before the commit source is read; a run that goes on to the
\* commit source has its bounds in order; without --since and with
\* --window-days 0 there is no lower bound and that error cannot occur.
C13_WindowOrder ==
    program = "main.rs" =>
        /\ ( /\ pc # "start"
             /\ LowerBound.kind = "ok" /\ UpperBound.kind = "ok"
             /\ ~InstantLess(LowerBound.value, UpperBound.value) ) =>
              /\ pc = "exit" /\ err = Some(SinceUntilError)
              /\ commits = <<>> /\ stdout = <<>> /\ metrics = None
        /\ pc \in {"fetch", "retain", "check", "fold", "report"} =>
              /\ window.since = BoundOption(since_bound(cli, utc_now))
              /\ window.until = BoundOption(UpperBound)
              /\ (window.since # None /\ window.until # None) =>
                    InstantLess(Unwrap(window.since), Unwrap(window.until))
        /\ (cli.since = None /\ cli.window_days = 0) =>
              /\ err # Some(SinceUntilError)
              /\ pc \notin {"start", "exit", "panicked"} => window.since = None

\* the default window ends after an --until of 2024: refused with a commit
\* waiting in the source
C13_Witness ==
    /\ program = "main.rs" /\ pc = "exit"
    /\ cli.since = None /\ cli.window_days = DefaultWindowDays
    /\ cli.until = Some(StrDateShort)
    /\ gitlog # <<>> /\ commits = <<>>
    /\ err = Some(SinceUntilError)

\* a state file that cannot be decoded: not JSON, or no last_push in it
Undecodable(doc) == ~doc.json \/ doc.last_push = None

\* C16: an invocation of push-check that finds no state file succeeds and
\* writes the file with its own time; one that finds a state file it cannot
\* decode ends with an error and writes nothing; no invocation reads the
\* file more than once or writes it more than once.
C16_StateFile ==
    /\ [](program = "push-check" =>
            /\ push.reads <= 1 /\ push.writes <= 1
            /\ (pc = "exit" /\ err # None) =>
                  /\ push.writes = 0
                  /\ file # None /\ Undecodable(Unwrap(file))
            /\ (pc = "exit" /\ push.n = 1 /\ push.seed = None) =>
                  /\ err = None /\ push.reads = 0 /\ push.writes = 1
                  /\ file = Some(EncodeState(push.now)))
    /\ [][(pc = "read" /\ file = None) =>
            (pc' = "decide" /\ err' = None /\ push'.reads = 0)]_vars
    /\ [][(pc = "decide" /\ push.reads = 0) => (pc' = "write" /\ err' = None)]_vars
    /\ [][pc = "write" =>
            /\ pc' = "exit" /\ err' = None
            /\ push'.writes = 1
            /\ file' = Some(EncodeState(push.now))]_vars
    /\ [][(pc = "read" /\ file # None /\ Undecodable(Unwrap(file))) =>
            /\ pc' = "exit" /\ err' = Some(CorruptError)
            /\ file' = file
            /\ push'.reads = 1 /\ push'.writes = 0]_vars

\* the second invocation in a row has failed on a file that is not JSON
C16_Witness ==
    /\ program = "push-check" /\ push.n = 2 /\ pc = "exit"
    /\ err = Some(CorruptError)
    /\ file = Some(GarbageFile)
    /\ push.reads = 1 /\ push.writes = 0
    /\ history = <<>>

\* the time in the state file before the first invocation, if it decodes
SeedTime ==
    IF push.seed # None /\ ~Undecodable(Unwrap(push.seed))
    THEN Unwrap(push.seed).last_push ELSE None

\* the time the invocation before the k-th successful one has written
PrevTime(k) == IF k = 1 THEN SeedTime ELSE Some(history[k - 1].now)

\* that time exists and the k-th invocation is at least --threshold minutes
\* after it
Due(k) ==
    /\ PrevTime(k) # None
    /\ history[k].now - Unwrap(PrevTime(k)) >= 0
    /\ DecLeq(history[k].args.threshold_minutes,
              IntToDec((history[k].now - Unwrap(PrevTime(k))) \div SecsPerMinute))

\* C17: over the successful invocations of push-check on one state file,
\* each decides on the time written by the one before it: it prints the
\* reminder iff that time exists and now minus it is at least the
\* threshold; in quiet mode it prints nothing otherwise; and it leaves its
\* own time in the file, so the file holds the time of the latest
\* successful invocation.
C17_ReminderRule ==
    program = "push-check" =>
        /\ \A k \in 1..Len(history) :
              /\ (\E j \in 1..Len(history[k].printed) :
                      history[k].printed[j].line = "reminder") <=> Due(k)
              /\ (history[k].args.quiet /\ ~Due(k)) => history[k].printed = <<>>
              /\ Len(history[k].printed) <= 1
        /\ history # <<>> =>
              file = Some(EncodeState(history[Len(history)].now))

=============================================================================
